---------------------------- MODULE Spec2Model ----------------------------
(***************************************************************************)
(* Model of the precision sampling and timing core of src/main.cpp         *)
(* (ADS1263 streamer with GPS PPS discipline).                             *)
(*                                                                         *)
(* Units.  Raw and virtual microsecond values are in microseconds, raw     *)
(* millisecond values in milliseconds, as in the source.  Floating point   *)
(* fields are fixed point: oscillator_calibration_ppm in 1/PpmScale ppm,   *)
(* phase_acc_us / per_sample_phase_adjust_us / the effective interval in   *)
(* 1/UsScale microseconds, timing_accuracy_us in 1/AccScale microseconds,  *)
(* stream_rate in 1/RateScale Hz.                                          *)
(*                                                                         *)
(* Widths.  TLC integers are 32 bit, so the 32-bit counters of the target  *)
(* are modelled 16 times narrower (MicrosModulus = 2^28 instead of 2^32);  *)
(* the three thresholds of the source that are fractions of the counter    *)
(* range (4.0e9, 3.0e8, 1.0e9) shrink with it, every other constant keeps  *)
(* its source value.  uint64_t arithmetic is modulo U64Modulus = 2^30,     *)
(* which no virtual time of a bounded run reaches.                         *)
(*                                                                         *)
(* Consequences of the narrower counters.  A fall of the raw counter by    *)
(* more than 62.5 s is taken for a late wrap by getVirtualMicros() (1000 s *)
(* on the target), and the wrap window is 18.75 s wide after the wrap      *)
(* (300 s on the target).  The properties about the quality state machine  *)
(* are therefore stated for runs in which no reset was injected and none   *)
(* was detected; the injected jumps of SpecLong fall by 5.5 s, inside the  *)
(* range where model and target classify alike.                            *)
(***************************************************************************)
EXTENDS Integers, Sequences, FiniteSets, TLC

\* ------------------------------------------------------------------ widths
MicrosModulus == 268435456
MillisModulus == 268435456
U64Modulus == 1073741824
SeqModulus == 65536

\* ------------------------------------------------- fixed point resolutions
PpmScale == 1000
UsScale == 1000
AccScale == 10000
RateScale == 1000

\* ----------------------------------------------------- program constants
WRAP_PREV_MIN == 250000000
WRAP_CUR_MAX == 18750000
LATE_WRAP_JUMP == 62500000
RESET_JUMP_US == 1000000
RESET_JUMP_MS == 1000
BOOT_US == 5000000
BOOT_MS == 5000
PRE_RESET_US == 10000000
PRE_RESET_MS == 10000
RESET_RECOVERY_MS == 30000
PPS_IGNORE_AFTER_RESET_MS == 5000
PPS_INTERVAL_MIN_MS == 900
PPS_INTERVAL_MAX_MS == 1100
ACTIVE_AGE_MS == 1500
HOLDOVER_AGE_MS == 60000
CAL_AGE_MS == 300000
CAL_PPM_LIMIT == 200
CAL_ERROR_LIMIT_PPM == 1000
PPS_INITIAL_COUNT == 10
NUDGE_DEADBAND_US == 20
NUDGE_SAMPLES == 200
PHASE_CLAMP_US == 20
LOCK_HYSTERESIS_US == 5
REFERENCE_UPDATE_INTERVAL == 1000000
MAX_RATE_HZ == 1000
MAX_SYNC_DELAY_MS == 10000
MAX_PPS_WAIT == 5
TX_MIN_FREE == 20
TX_HEALTHY_FREE == 50
OFLOW_REPORT_INTERVAL_MS == 1000
EARLY_WAIT_MAX_US == 10000

PPS_ACTIVE == 0
PPS_HOLDOVER == 1
INTERNAL_CAL == 2
INTERNAL_RAW == 3

\* ------------------------------------------------------------------ helpers
Abs(x) == IF x < 0 THEN -x ELSE x
Min(a, b) == IF a < b THEN a ELSE b
Max(a, b) == IF a > b THEN a ELSE b

\* C integer division and remainder (truncation toward zero).
CDiv(a, b) == IF a >= 0 THEN a \div b ELSE -((-a) \div b)
CMod(a, b) == a - b * CDiv(a, b)

\* Unsigned subtraction of two unsigned long millisecond values.
SubMs(a, b) == (a - b) % MillisModulus
\* Unsigned subtraction / addition of uint64_t values.
Sub64(a, b) == (a - b) % U64Modulus
Add64(a, b) == (a + b) % U64Modulus

\* floor(a * b / 1000000) for 0 <= a < 2^30 and |b| <= 2000000, without
\* leaving 32 bits: a is split into base-1000 digits.
MulDivMillion(a, b) ==
  LET a2 == a \div 1000000
      a1 == (a \div 1000) % 1000
      a0 == a % 1000
  IN  a2 * b + ((a1 * b + ((a0 * b) \div 1000)) \div 1000)

VARIABLES
  mcu,          \* every global of main.cpp the model tracks (one record)
  hw_micros,    \* what micros() returns now
  hw_millis,    \* what millis() returns now
  pc,           \* position of the main loop inside loop()
  tick_millis,  \* updateTimingSource()'s local current_millis
  elapsed,      \* microseconds of time the environment has let pass
  waited,       \* microseconds passed since the last pass of loop() began
  resets,       \* counter resets the environment has injected
  cmds_sent     \* command lines the host has sent

vars == <<mcu, hw_micros, hw_millis, pc, tick_millis, elapsed, waited, resets,
          cmds_sent>>

\* ================================================================ output
\* Serial lines are recorded by tag in mcu.tx, which holds the lines written
\* by the step taken last.
Emit(s, tag) == [s EXCEPT !.tx = Append(@, tag)]
\* The command line a step processed (cmd) is an observation of that step, as
\* is the TX space the firing of that step found (fired_space).
NoCmd == [name |-> "", rate |-> 0, arg |-> 0]
Begin(s) == [s EXCEPT !.tx = <<>>, !.fired = FALSE, !.fired_seq = 0,
                      !.fired_index = 0, !.trigger_now = 0,
                      !.fired_space = 0, !.cmd = NoCmd]
Wrote(tag) == \E i \in 1..Len(mcu.tx) : mcu.tx[i] = tag
CountOf(line, tag) == Cardinality({i \in 1..Len(line) : line[i] = tag})

\* ========================================================= virtual clock
\* getVirtualMicros() without the late wrap detection.
getVirtualMicrosNoWrap(s, us) ==
  LET ret == Add64(s.virtual_micros_offset, us)
  IN  [s EXCEPT !.last_micros = us,
                !.vm_ok = @ /\ (ret >= s.vm_ret),
                !.vm_ret = ret]

\* getVirtualMicros(): the state after the call; the value returned is the
\* result's vm_ret.  vm_ok records that no call so far returned less than the
\* call before it.
getVirtualMicros(s, us) ==
  LET late == us < s.last_micros /\ (s.last_micros - us) > LATE_WRAP_JUMP
      off  == IF late THEN Add64(s.virtual_micros_offset, MicrosModulus)
                      ELSE s.virtual_micros_offset
      ret  == Add64(off, us)
      s1   == IF late THEN Emit(s, "DEBUG_LATE_WRAP") ELSE s
  IN  [s1 EXCEPT !.micros_wraparound_count = IF late THEN @ + 1 ELSE @,
                 !.virtual_micros_offset = off,
                 !.last_micros = us,
                 !.vm_ok = @ /\ (ret >= s.vm_ret),
                 !.vm_ret = ret]

\* detectClockReset(): <<state after the call, value returned>>.
IsWrap(s, us) == s.last_micros > WRAP_PREV_MIN /\ us < WRAP_CUR_MAX

detectClockReset(s, us, ms) ==
  IF us < s.last_micros /\ IsWrap(s, us)
  THEN <<[Emit(s, "DEBUG_WRAP") EXCEPT
            !.micros_wraparound_count = @ + 1,
            !.virtual_micros_offset = Add64(@, MicrosModulus),
            !.last_micros = us,
            !.last_millis = ms], FALSE>>
  ELSE IF us < s.last_micros /\ (s.last_micros - us) > RESET_JUMP_US
  THEN <<Emit(s, "WARNING_MICROS_BACKWARD"), TRUE>>
  ELSE IF ms < s.last_millis /\ (s.last_millis - ms) > RESET_JUMP_MS
  THEN <<Emit(s, "WARNING_MILLIS_BACKWARD"), TRUE>>
  ELSE IF us < BOOT_US /\ ms < BOOT_MS
          /\ (s.last_micros > PRE_RESET_US \/ s.last_millis > PRE_RESET_MS)
  THEN <<Emit(s, "WARNING_RECENT_RESET"), TRUE>>
  ELSE <<[s EXCEPT !.last_micros = us, !.last_millis = ms], FALSE>>

\* handleClockReset()
handleClockReset(s, us, ms) ==
  LET pre == Add64(s.virtual_micros_offset, s.last_micros)
      s1  == [s EXCEPT !.clock_reset_detected = TRUE,
                       !.reset_detection_time = ms,
                       !.clock_resets_detected = @ + 1,
                       !.virtual_micros_offset = pre,
                       !.last_micros = us,
                       !.last_millis = ms,
                       !.calibration_valid = FALSE,
                       !.timing_accuracy_us = 1000 * AccScale,
                       !.current_source = INTERNAL_RAW]
      s2  == getVirtualMicros(s1, us)
      start == s2.timing_base_micros + s2.virtual_micros_offset
      \* uint64_t subtraction: below zero it wraps to a value near 2^64, and the
      \* quotient is far above reference_update_interval for every interval;
      \* the reduced width keeps that by standing in reference_update_interval.
      expected_sample_index ==
        IF s2.vm_ret >= start
        THEN (s2.vm_ret - start) \div s2.sample_interval_us
        ELSE REFERENCE_UPDATE_INTERVAL
  IN  IF s1.timing_established /\ s1.streaming
      THEN [s2 EXCEPT !.sample_index = expected_sample_index]
      ELSE s1

\* ============================================================ calibration
\* clampOscillatorCalibration()
clampOscillatorCalibration(s) ==
  IF s.oscillator_calibration_ppm > CAL_PPM_LIMIT * PpmScale
  THEN [Emit(s, "WARNING_CLAMPED") EXCEPT
          !.oscillator_calibration_ppm = CAL_PPM_LIMIT * PpmScale]
  ELSE IF s.oscillator_calibration_ppm < -(CAL_PPM_LIMIT * PpmScale)
  THEN [Emit(s, "WARNING_CLAMPED") EXCEPT
          !.oscillator_calibration_ppm = -(CAL_PPM_LIMIT * PpmScale)]
  ELSE s

\* saveOscillatorCalibration(): EEPROM.put of the magic word and of the ppm.
saveOscillatorCalibration(s) ==
  [s EXCEPT !.eeprom_magic_ok = TRUE,
            !.eeprom_ppm = s.oscillator_calibration_ppm]

\* loadOscillatorCalibration(), on the state setupAdvancedTiming() leaves.
loadOscillatorCalibration(s) ==
  IF s.eeprom_magic_ok /\ Abs(s.eeprom_ppm) <= CAL_PPM_LIMIT * PpmScale
  THEN [s EXCEPT !.oscillator_calibration_ppm = s.eeprom_ppm,
                 !.calibration_valid = TRUE]
  ELSE s

\* sendSessionHeader() without its once-only test.
sendSessionHeaderAlways(s) ==
  [Emit(s, "SESSION") EXCEPT !.session_header_sent = TRUE,
                             !.session_headers = @ + 1]

\* sendSessionHeader().  session_headers counts the SESSION lines written
\* since the last STOP_STREAM or RESET command (or since boot).
sendSessionHeader(s) ==
  IF s.session_header_sent THEN s
  ELSE [Emit(s, "SESSION") EXCEPT !.session_header_sent = TRUE,
                                  !.session_headers = @ + 1]

\* ================================================================== PPS
\* The signed phase of the PPS edge against the sample grid, in
\* (-interval/2, interval/2] (processPPS, both phase blocks).
SignedPhase(s) ==
  LET pps_virtual == Add64(s.virtual_micros_offset, s.pps_micros)
      delta       == pps_virtual - s.timing_base_micros
      phase_mod   == delta % s.sample_interval_us
  IN  IF phase_mod <= s.sample_interval_us \div 2
      THEN phase_mod ELSE phase_mod - s.sample_interval_us

PerSampleUnclamped(phase, planned) == CDiv(phase * UsScale, planned)

\* per_sample = phase / planned, clamped to +/-20 us per sample.
PerSampleAdjust(phase, planned) ==
  LET raw == CDiv(phase * UsScale, planned)
  IN  IF raw > PHASE_CLAMP_US * UsScale THEN PHASE_CLAMP_US * UsScale
      ELSE IF raw < -(PHASE_CLAMP_US * UsScale) THEN -(PHASE_CLAMP_US * UsScale)
      ELSE raw

\* samples_needed = (uint32_t)(|phase| / |per_sample| + 0.5), at least 1:
\* planned when the clamp did not act, |phase| / 20 rounded when it did.
SamplesNeeded(phase, planned) ==
  LET n == IF Abs(phase) > PHASE_CLAMP_US * planned
           THEN (2 * Abs(phase) + PHASE_CLAMP_US) \div (2 * PHASE_CLAMP_US)
           ELSE planned
  IN  IF n = 0 THEN 1 ELSE n

\* plan_completed: a plan has run through its last sample and none has been
\* made since.
PlanPhase(s, phase, planned) ==
  [s EXCEPT !.phase_error_us = phase,
            !.plan_completed = FALSE,
            !.per_sample_phase_adjust_us = PerSampleAdjust(phase, planned),
            !.phase_adjust_samples_remaining = SamplesNeeded(phase, planned),
            !.phase_alignment_active = TRUE]

\* A PPS-locked start that moves the base to the edge and leaves the
\* scheduler's next sample time where it was.
StartAtPPSBaseOnly(s) ==
  Emit(sendSessionHeader(
    [s EXCEPT !.timing_base_micros = s.pps_micros,
              !.timing_established = TRUE,
              !.waiting_for_sync_start = FALSE,
              !.started_on_pps = TRUE,
              !.sequence = 0,
              !.streaming = TRUE,
              !.stream_firings = IF s.streaming THEN @ ELSE 0,
              !.fired_ts = IF s.streaming THEN @ ELSE 0]), "OK_STARTED_AT_PPS")

\* The PPS-locked start both countdown blocks of processPPS() perform.
StartAtPPS(s) ==
  Emit(sendSessionHeader(
    [s EXCEPT !.timing_base_micros = s.pps_micros,
              !.next_sample_micros = s.pps_micros,
              !.timing_established = TRUE,
              !.waiting_for_sync_start = FALSE,
              !.started_on_pps = TRUE,
              !.sequence = 0,
              !.streaming = TRUE,
              !.stream_firings = IF s.streaming THEN @ ELSE 0,
              !.fired_ts = IF s.streaming THEN @ ELSE 0]), "OK_STARTED_AT_PPS")

\* processPPS(), lines 713-769: the ppm estimate from this edge.
Calibrate(s) ==
  LET actual_interval == Sub64(s.pps_micros, s.cal_base_micros)
      error_ppm       == actual_interval - 1000000
      smoothed        == (9 * s.oscillator_calibration_ppm
                            - error_ppm * PpmScale) \div 10
  IN  IF ~(s.pps_count > 1 /\ s.calibration_valid /\ ~s.clock_reset_detected)
      THEN s
      ELSE IF ~(Abs(error_ppm) < CAL_ERROR_LIMIT_PPM)
      THEN Emit(s, "WARNING_CAL_ERROR")
      ELSE IF s.pps_count < PPS_INITIAL_COUNT
      THEN [s EXCEPT !.oscillator_calibration_ppm = -(error_ppm * PpmScale)]
      ELSE saveOscillatorCalibration(clampOscillatorCalibration(
             [s EXCEPT !.oscillator_calibration_ppm = smoothed]))

\* processPPS(), lines 771-886: anchor, phase plans, second countdown.
\* nudge_samples: the sample count the one-shot nudge announced when it was
\* created (the phase lock block that follows plans again at once).
AcceptPPS(s, ms) ==
  LET s1 == [s EXCEPT !.pps_valid = TRUE,
                      !.calibration_valid = TRUE,
                      !.cal_base_micros = s.pps_micros,
                      !.cal_base_millis = ms,
                      !.last_pps_time = ms,
                      !.pps_accepted = TRUE]
      p1 == SignedPhase(s1)
      s2 == IF s1.streaming /\ s1.timing_established /\ ~s1.started_on_pps
               /\ ~s1.phase_nudge_applied
               /\ (p1 > NUDGE_DEADBAND_US \/ p1 < -NUDGE_DEADBAND_US)
            THEN [Emit(PlanPhase(s1, p1, NUDGE_SAMPLES), "DEBUG_NUDGE")
                    EXCEPT !.phase_nudge_applied = TRUE,
                           !.nudge_samples = SamplesNeeded(p1, NUDGE_SAMPLES)]
            ELSE s1
      sps == LET r == (s2.stream_rate + RateScale \div 2) \div RateScale
             IN  IF r = 0 THEN 1 ELSE r
      s3 == IF s2.streaming /\ s2.timing_established
               /\ (p1 > LOCK_HYSTERESIS_US \/ p1 < -LOCK_HYSTERESIS_US)
            THEN Emit(PlanPhase(s2, p1, sps), "DEBUG_LOCK_ADJUST")
            ELSE s2
  IN  IF s3.sync_on_pps /\ s3.pps_countdown > 0
      THEN IF s3.pps_countdown = 1
           THEN StartAtPPS([s3 EXCEPT !.pps_countdown = 0])
           ELSE [s3 EXCEPT !.pps_countdown = @ - 1]
      ELSE s3

NeverIgnored(s, ms) == FALSE

\* processPPS(), lines 693-699: the edge falls into the reset recovery period.
IgnoredAfterReset(s, ms) ==
  s.clock_reset_detected
    /\ SubMs(ms, s.reset_detection_time) < PPS_IGNORE_AFTER_RESET_MS

\* processPPS()
processPPS(s, ms) ==
  LET s0 == [s EXCEPT !.pps_count = @ + 1,
                      !.pps_accepted = FALSE,
                      !.armed_edges = IF s.sync_on_pps /\ s.pps_countdown > 0
                                      THEN @ + 1 ELSE @]
  IN  IF s0.sync_on_pps /\ s0.pps_countdown = 1
      THEN [StartAtPPS([s0 EXCEPT !.pps_countdown = 0, !.sync_on_pps = FALSE])
              EXCEPT !.last_pps_time = ms]
      ELSE LET s1 == IF s0.sync_on_pps /\ s0.pps_countdown > 0
                     THEN [s0 EXCEPT !.pps_countdown = @ - 1] ELSE s0
           IN  IF IgnoredAfterReset(s1, ms)
               THEN Emit(s1, "DEBUG_PPS_IGNORED")
               ELSE IF s1.pps_valid
                       /\ (SubMs(ms, s1.last_pps_time) < PPS_INTERVAL_MIN_MS
                           \/ SubMs(ms, s1.last_pps_time) > PPS_INTERVAL_MAX_MS)
               THEN Emit(s1, "WARNING_PPS_INTERVAL")
               ELSE AcceptPPS(Calibrate(s1), ms)

\* ======================================================= timing quality
\* updateTimingSource(), lines 470-525: the quality state machine, evaluated
\* with the current_millis the tick read at its start.
RecentResetShort(s, current_millis) ==
  s.clock_reset_detected
    /\ SubMs(current_millis, s.reset_detection_time) < PPS_IGNORE_AFTER_RESET_MS

RecentReset(s, current_millis) ==
  s.clock_reset_detected
    /\ SubMs(current_millis, s.reset_detection_time) < RESET_RECOVERY_MS

selectTimingSource(s, current_millis) ==
  LET time_since_reset == SubMs(current_millis, s.reset_detection_time)
      recent_reset     == RecentReset(s, current_millis)
      time_since_pps   == SubMs(current_millis, s.last_pps_time)
      s1 ==
        IF s.pps_valid /\ time_since_pps < ACTIVE_AGE_MS /\ ~recent_reset
        THEN [s EXCEPT !.current_source = PPS_ACTIVE,
                       !.timing_accuracy_us = AccScale]
        ELSE IF s.pps_valid /\ time_since_pps < HOLDOVER_AGE_MS /\ ~recent_reset
        THEN [s EXCEPT !.current_source = PPS_HOLDOVER,
                       !.timing_accuracy_us = AccScale + time_since_pps]
        ELSE IF s.calibration_valid /\ time_since_pps < CAL_AGE_MS /\ ~recent_reset
        THEN [s EXCEPT !.current_source = INTERNAL_CAL,
                       !.timing_accuracy_us = 10 * AccScale + 3 * time_since_pps]
        ELSE LET r == [s EXCEPT !.current_source = INTERNAL_RAW,
                                !.timing_accuracy_us =
                                  IF recent_reset THEN 2000 * AccScale
                                                  ELSE 1000 * AccScale]
             IN  IF recent_reset /\ ~r.reset_warned
                 THEN [Emit(r, "WARNING_RAW_AFTER_RESET") EXCEPT
                         !.reset_warned = TRUE, !.degradation_warned = FALSE]
                 ELSE IF r.pps_valid /\ ~r.degradation_warned /\ ~recent_reset
                 THEN [Emit(r, "WARNING_PPS_LOST") EXCEPT
                         !.pps_valid = FALSE,
                         !.degradation_warned = TRUE,
                         !.reset_warned = FALSE]
                 ELSE r
  IN  IF recent_reset /\ time_since_reset > RESET_RECOVERY_MS
      THEN [Emit(s1, "DEBUG_RECOVERY_DONE") EXCEPT !.clock_reset_detected = FALSE]
      ELSE s1

\* ============================================================= timestamps
\* calculateCalibratedTimestamp()
calculateCalibratedTimestamp(s, current_micros) ==
  LET elapsed_micros == Sub64(current_micros, s.cal_base_micros)
      correction     == MulDivMillion(elapsed_micros, s.oscillator_calibration_ppm)
                          \div PpmScale
  IN  IF ~s.calibration_valid THEN current_micros
      ELSE Add64(s.cal_base_micros, elapsed_micros + correction)

\* getPreciseTimestamp(), on the state its getVirtualMicros() call left.
getPreciseTimestamp(s) ==
  IF s.current_source \in {PPS_ACTIVE, PPS_HOLDOVER, INTERNAL_CAL}
  THEN calculateCalibratedTimestamp(s, s.vm_ret)
  ELSE s.vm_ret

\* ============================================================== scheduler
IntervalOfRate(rate) == (1000000 * RateScale) \div rate

\* establishSamplingTiming()
establishSamplingTiming(s, us) ==
  LET s1 == getVirtualMicros(s, us)
      offset_us == s1.vm_ret % s1.sample_interval_us
      next_boundary_micros == Add64(s1.vm_ret, s1.sample_interval_us - offset_us)
  IN  [Emit(s1, "DEBUG_ESTABLISHED") EXCEPT
         !.timing_base_micros = next_boundary_micros,
         !.timing_base_virtual_micros = next_boundary_micros,
         !.timing_established = TRUE,
         !.sample_index = 0,
         !.next_sample_micros = next_boundary_micros]

\* updateTimingReference()
updateTimingReference(s, us) ==
  LET s1 == getVirtualMicros(s, us)
  IN  [Emit(s1, "DEBUG_REFERENCE_UPDATED") EXCEPT
         !.timing_base_micros = s1.vm_ret,
         !.timing_base_virtual_micros = s1.vm_ret,
         !.sample_index = 0,
         !.next_sample_micros = s1.vm_ret]

\* validateAndCorrectSequence() reporting a gap without resynchronising: the
\* expected number just moves on by one.
validateSequenceNoResync(s) ==
  LET seq == s.sequence
      exp == s.expected_sequence
  IN  IF ~s.validation_enabled THEN s
      ELSE IF seq = exp THEN [s EXCEPT !.expected_sequence = (exp + 1) % SeqModulus]
      ELSE [Emit(s, "SEQUENCE_GAP") EXCEPT
              !.sequence_gaps_detected = @ + 1,
              !.expected_sequence = (exp + 1) % SeqModulus]

\* validateAndCorrectSequence(sequence): seq is passed by reference and never
\* written.
validateAndCorrectSequence(s) ==
  LET seq == s.sequence
      exp == s.expected_sequence
      gap_size == IF seq > exp THEN seq - exp ELSE (SeqModulus - exp) + seq
      resync == (seq + 1) % SeqModulus
  IN  IF ~s.validation_enabled THEN s
      ELSE IF exp = 0 /\ seq = 0 THEN [s EXCEPT !.expected_sequence = 1]
      ELSE IF seq = exp THEN [s EXCEPT !.expected_sequence = (exp + 1) % SeqModulus]
      ELSE IF seq < exp /\ gap_size > 1000
      THEN [Emit(s, "SEQUENCE_RESET") EXCEPT
              !.sequence_resets_detected = @ + 1,
              !.expected_sequence = resync]
      ELSE [Emit(s, "SEQUENCE_GAP") EXCEPT
              !.sequence_gaps_detected = @ + 1,
              !.expected_sequence = resync]

\* checkSerialBufferOverflow() giving the stream up when the buffer is full.
checkSerialBufferOverflowHalting(s, available_space) ==
  IF available_space < TX_MIN_FREE
  THEN <<[(IF s.overflow_warning_sent THEN s ELSE Emit(s, "WARNING_TX_FULL"))
            EXCEPT !.buffer_overflows = @ + 1,
                   !.overflow_warning_sent = TRUE,
                   !.streaming = FALSE], TRUE>>
  ELSE <<[s EXCEPT !.overflow_warning_sent =
                     IF available_space > TX_HEALTHY_FREE THEN FALSE ELSE @],
         FALSE>>

\* checkSerialBufferOverflow(): <<state after the call, value returned>>.
checkSerialBufferOverflow(s, available_space) ==
  IF available_space < TX_MIN_FREE
  THEN <<[(IF s.overflow_warning_sent THEN s ELSE Emit(s, "WARNING_TX_FULL"))
            EXCEPT !.buffer_overflows = @ + 1,
                   !.overflow_warning_sent = TRUE], TRUE>>
  ELSE <<[s EXCEPT !.overflow_warning_sent =
                     IF available_space > TX_HEALTHY_FREE THEN FALSE ELSE @],
         FALSE>>

\* outputDataWithOverflowProtection() without the protection: the record is
\* written whatever the buffer check says.
outputDataUnprotected(s, available_space, ms) ==
  Emit(checkSerialBufferOverflow(s, available_space)[1], "SAMPLE")

\* outputDataWithOverflowProtection()
outputDataWithOverflowProtection(s, available_space, ms) ==
  LET chk == checkSerialBufferOverflow(s, available_space)
      s1  == chk[1]
      s2  == [s1 EXCEPT !.samples_skipped_due_to_overflow = @ + 1]
  IN  IF chk[2]
      THEN IF SubMs(ms, s2.last_oflow_message_time) >= OFLOW_REPORT_INTERVAL_MS
           THEN [Emit(s2, "OFLOW") EXCEPT !.last_oflow_message_time = ms]
           ELSE s2
      ELSE Emit(s1, "SAMPLE")

NextSequenceNoWrap(seq) == seq + 1

\* Line 1151.
NextSequence(seq) == (seq + 1) % SeqModulus

\* generatePreciseSample().  The observation fields fired_seq and fired_index
\* hold what this firing passed to the output routine, fired_ts the timestamp
\* of the last record of the stream that was written (0: none yet), first_ts
\* the timestamp of the record of the stream's first firing (0: not written);
\* stream_firings counts the firings since the stream started.
generatePreciseSample(s, us, ms, available_space) ==
  LET s1 == getVirtualMicros(s, us)
      s2 == IF s1.sample_index >= REFERENCE_UPDATE_INTERVAL
            THEN updateTimingReference(s1, us) ELSE s1
      s3 == getVirtualMicros(s2, us)
      precise_timestamp == getPreciseTimestamp(s3)
      s4 == outputDataWithOverflowProtection(
              validateAndCorrectSequence(s3), available_space, ms)
      written == s4.tx # <<>> /\ s4.tx[Len(s4.tx)] = "SAMPLE"
  IN  [s4 EXCEPT !.fired = TRUE,
                 !.fired_space = available_space,
                 !.fired_seq = s3.sequence,
                 !.fired_index = s3.sample_index,
                 !.fired_ts = IF written THEN precise_timestamp ELSE @,
                 !.first_ts = IF s.stream_firings = 0
                              THEN (IF written THEN precise_timestamp ELSE 0)
                              ELSE @,
                 !.stream_firings = @ + 1,
                 !.sequence = NextSequence(s3.sequence),
                 !.sample_index = s3.sample_index + 1]

\* loop(), lines 316-367: the fractional scheduler, one pass.
EffectiveInterval(s) ==
  s.sample_interval_us * UsScale
    - MulDivMillion(s.sample_interval_us, s.oscillator_calibration_ppm)

\* Lines 348-365: the step to the next sample time, after a firing.
AdvanceNextSample(s) ==
  LET eff    == EffectiveInterval(s)
      active == s.phase_alignment_active /\ s.phase_adjust_samples_remaining > 0
      step   == eff + s.phase_acc_us
                  + (IF active THEN s.per_sample_phase_adjust_us ELSE 0)
      left   == s.phase_adjust_samples_remaining - 1
      s1     == IF active /\ left = 0
                THEN [Emit(s, "DEBUG_PHASE_DONE") EXCEPT
                        !.plan_completed = TRUE,
                        !.phase_adjust_samples_remaining = 0,
                        !.phase_alignment_active = FALSE,
                        !.per_sample_phase_adjust_us = 0,
                        !.phase_error_us = 0]
                ELSE IF active
                THEN [s EXCEPT !.phase_adjust_samples_remaining = left]
                ELSE s
      whole_us == CDiv(step, UsScale)
  IN  [s1 EXCEPT !.phase_acc_us = step - whole_us * UsScale,
                 !.next_sample_micros = Add64(@, whole_us)]

\* Lines 336-346: the jump over the slots missed before this firing.
SkipMissedSlots(s, now_virtual) ==
  LET eff_whole    == CDiv(EffectiveInterval(s), UsScale)
      missed_slots == CDiv(now_virtual - s.next_sample_micros, eff_whole)
  IN  IF missed_slots > 0
      THEN [Emit(s, "DEBUG_SKIPPED") EXCEPT
              !.next_sample_micros = Add64(@, missed_slots * eff_whole)]
      ELSE s

\* punctual: every firing of the stream so far happened at the very
\* microsecond it was scheduled for.
runScheduler(s, us, ms, available_space) ==
  LET s1 == IF s.next_sample_micros = 0
            THEN [s EXCEPT !.next_sample_micros = s.timing_base_micros] ELSE s
      s2 == getVirtualMicros(s1, us)
      now_virtual == s2.vm_ret
  IN  IF now_virtual - s2.next_sample_micros >= 0
      THEN AdvanceNextSample(SkipMissedSlots(
             [generatePreciseSample(s2, us, ms, available_space)
                EXCEPT !.trigger_now = now_virtual,
                       !.punctual = (s.stream_firings = 0 \/ @)
                                      /\ now_virtual = s2.next_sample_micros],
             now_virtual))
      ELSE s2

\* loop(), lines 283-314: a pass while a synchronized start is pending.
waitForSyncStart(s, us) ==
  LET s1 == getVirtualMicros(s, us)
      now_us == s1.vm_ret
  IN  IF s.sync_on_pps THEN s
      ELSE IF now_us - s1.sync_start_target_us >= 0
      THEN [Emit(s1, "OK_STARTED_STRICT") EXCEPT
              !.timing_base_micros = now_us,
              !.next_sample_micros = now_us,
              !.timing_established = TRUE,
              !.waiting_for_sync_start = FALSE,
              !.sample_index = 0]
      ELSE s1

\* sendHealthBeacon()
sendHealthBeacon(s, ms) ==
  IF SubMs(ms, s.last_stat_time) >= s.stat_interval_ms
  THEN [Emit(s, "STAT") EXCEPT !.last_stat_time = ms]
  ELSE s

\* readInternalTemperature() is the stub of the source: 25.0 C, the reference
\* temperature, so temp_change and temp_correction are 0.
updateTemperatureCompensation(s) ==
  IF s.temp_compensation_enabled /\ s.current_source = INTERNAL_CAL
  THEN clampOscillatorCalibration(s)
  ELSE s

\* ================================================================ commands
\* start_cmd is the start command accepted last ("" for none).
\* isRateChangeAllowed(): <<state after the call, value returned>>.  The
\* change in ppm is |new - old| / old * 1e6, compared without multiplying.
isRateChangeAllowed(s, new_rate) ==
  LET diff       == Abs(new_rate - s.stream_rate)
      over50     == diff > s.stream_rate \div 20000
      over1000   == diff > s.stream_rate \div 1000
      pps_locked == s.current_source = PPS_ACTIVE
  IN  IF pps_locked /\ over50 THEN <<Emit(s, "ERROR"), FALSE>>
      ELSE IF over1000 THEN <<Emit(s, "WARNING_RATE_CHANGE"), TRUE>>
      ELSE <<s, TRUE>>

RateOk(rate) == rate > 0 /\ rate <= MAX_RATE_HZ * RateScale

cmdStartStream(s, rate, us) ==
  LET chk == isRateChangeAllowed(s, rate)
      s1  == IF RateOk(rate)
             THEN [chk[1] EXCEPT !.stream_rate = rate,
                                 !.sample_interval_us = IntervalOfRate(rate)]
             ELSE s
  IN  IF s.streaming THEN Emit(s, "ERROR")
      ELSE IF RateOk(rate) /\ ~chk[2] THEN chk[1]
      ELSE Emit(sendSessionHeader(
             [establishSamplingTiming([s1 EXCEPT !.sequence = 0], us)
                EXCEPT !.streaming = TRUE, !.stream_firings = 0,
                       !.fired_ts = 0,
                       !.start_cmd = "START_STREAM"]), "OK")

cmdStartStreamSync(s, rate, delay_ms, us) ==
  IF s.streaming THEN Emit(s, "ERROR")
  ELSE IF ~(RateOk(rate) /\ delay_ms >= 0 /\ delay_ms < MAX_SYNC_DELAY_MS)
  THEN Emit(s, "ERROR")
  ELSE LET s1 == getVirtualMicros(
                   [s EXCEPT !.stream_rate = rate,
                             !.sample_interval_us = IntervalOfRate(rate)], us)
       IN  Emit(sendSessionHeader(
             [s1 EXCEPT !.sync_start_target_us = Add64(s1.vm_ret, delay_ms * 1000),
                        !.waiting_for_sync_start = TRUE,
                        !.sequence = 0,
                        !.streaming = TRUE,
                        !.stream_firings = 0,
                        !.fired_ts = 0,
                        !.start_cmd = "START_STREAM_SYNC"]), "OK")

cmdStartStreamPPS(s, rate, pps_wait) ==
  IF s.streaming THEN Emit(s, "ERROR")
  ELSE IF ~(RateOk(rate) /\ pps_wait >= 1 /\ pps_wait <= MAX_PPS_WAIT)
  THEN Emit(s, "ERROR")
  ELSE Emit([s EXCEPT !.stream_rate = rate,
                      !.sample_interval_us = IntervalOfRate(rate),
                      !.sync_on_pps = TRUE,
                      !.pps_countdown = pps_wait,
                      !.waiting_for_sync_start = TRUE,
                      !.armed_edges = 0,
                      !.armed_n = pps_wait,
                      !.start_cmd = "START_STREAM_PPS"], "OK")

cmdStopStreamOnly(s) ==
  Emit([s EXCEPT !.streaming = FALSE,
                 !.timing_established = FALSE,
                 !.session_header_sent = FALSE], "OK")

cmdStopStream(s) ==
  Emit([s EXCEPT !.streaming = FALSE,
                 !.timing_established = FALSE,
                 !.sync_on_pps = FALSE,
                 !.pps_countdown = 0,
                 !.waiting_for_sync_start = FALSE,
                 !.session_header_sent = FALSE], "OK")

cmdReset(s) ==
  Emit([s EXCEPT !.streaming = FALSE,
                 !.timing_established = FALSE,
                 !.sequence = 0,
                 !.session_header_sent = FALSE], "OK")

cmdSetCalPpm(s, ppm_value) ==
  Emit(saveOscillatorCalibration(clampOscillatorCalibration(
    [s EXCEPT !.oscillator_calibration_ppm = ppm_value,
              !.calibration_valid = TRUE])), "OK")

cmdSetPreciseInterval(s, interval_us) ==
  LET new_rate == (1000000 * RateScale) \div interval_us
      chk == isRateChangeAllowed(s, new_rate)
  IN  IF ~(interval_us >= 9900 /\ interval_us <= 10100) THEN Emit(s, "ERROR")
      ELSE IF chk[2]
      THEN Emit([chk[1] EXCEPT !.sample_interval_us = interval_us,
                               !.stream_rate = new_rate], "OK")
      ELSE chk[1]

cmdSetterAnytime(s, field, legal, value) ==
  IF value \notin legal THEN Emit(s, "ERROR")
  ELSE Emit([s EXCEPT ![field] = value], "OK")

\* The five setters of the ADC configuration: refused while streaming, and
\* for a value outside the setter's table.
cmdSetter(s, field, legal, value) ==
  IF s.streaming THEN Emit(s, "ERROR")
  ELSE IF value \notin legal THEN Emit(s, "ERROR")
  ELSE Emit([s EXCEPT ![field] = value], "OK")

\* processLine(), for the commands the model feeds it.
processLine(s, cmd, us) ==
  CASE cmd.name = "START_STREAM"         -> cmdStartStream(s, cmd.rate, us)
    [] cmd.name = "SET_ADC_RATE"         -> cmdSetter(s, "current_adc_rate", 1..16, cmd.arg)
    [] cmd.name = "SET_GAIN"             -> cmdSetter(s, "current_adc_gain", 1..6, cmd.arg)
    [] cmd.name = "SET_FILTER"           -> cmdSetter(s, "current_adc_filter", 1..5, cmd.arg)
    [] cmd.name = "SET_DITHERING"        -> cmdSetter(s, "current_dithering", {0, 2, 3, 4}, cmd.arg)
    [] cmd.name = "SET_CHANNELS"         -> cmdSetter(s, "num_channels", 1..3, cmd.arg)
    [] cmd.name = "START_STREAM_SYNC"    -> cmdStartStreamSync(s, cmd.rate, cmd.arg, us)
    [] cmd.name = "START_STREAM_PPS"     -> cmdStartStreamPPS(s, cmd.rate, cmd.arg)
    [] cmd.name = "STOP_STREAM"          -> cmdStopStream(s)
    [] cmd.name = "RESET"                -> cmdReset(s)
    [] cmd.name = "SET_CAL_PPM"          -> cmdSetCalPpm(s, cmd.arg)
    [] cmd.name = "SET_PRECISE_INTERVAL" -> cmdSetPreciseInterval(s, cmd.arg)
    [] OTHER                             -> Emit(s, "ERROR")

\* =================================================================== Init
\* The state setup() leaves when it runs at raw time boot_us (last_micros and
\* last_millis are read there), with the EEPROM image given.
SetupState(boot_us, magic_ok, stored_ppm) ==
  loadOscillatorCalibration(
  [ streaming |-> FALSE, stream_rate |-> 100 * RateScale, sequence |-> 0,
    session_header_sent |-> FALSE,
    buffer_overflows |-> 0, samples_skipped_due_to_overflow |-> 0,
    overflow_warning_sent |-> FALSE, last_oflow_message_time |-> 0,
    expected_sequence |-> 0, validation_enabled |-> TRUE,
    sequence_gaps_detected |-> 0, sequence_resets_detected |-> 0,
    pps_received |-> FALSE, pps_micros |-> 0, last_pps_time |-> 0,
    pps_count |-> 0, pps_valid |-> FALSE,
    current_source |-> INTERNAL_RAW, oscillator_calibration_ppm |-> 0,
    cal_base_micros |-> 0, cal_base_millis |-> 0, calibration_valid |-> FALSE,
    last_micros |-> boot_us, last_millis |-> boot_us \div 1000,
    micros_wraparound_count |-> 0, virtual_micros_offset |-> 0,
    clock_reset_detected |-> FALSE, reset_detection_time |-> 0,
    clock_resets_detected |-> 0,
    timing_base_virtual_micros |-> 0, sample_interval_us |-> 10000,
    phase_acc_us |-> 0, next_sample_micros |-> 0, timing_base_micros |-> 0,
    timing_established |-> FALSE, sample_index |-> 0,
    started_on_pps |-> FALSE, phase_nudge_applied |-> FALSE,
    nudge_samples |-> 0, plan_completed |-> FALSE,
    phase_alignment_active |-> FALSE, phase_error_us |-> 0,
    per_sample_phase_adjust_us |-> 0, phase_adjust_samples_remaining |-> 0,
    waiting_for_sync_start |-> FALSE, sync_start_target_us |-> 0,
    sync_on_pps |-> FALSE, pps_countdown |-> 0,
    timing_accuracy_us |-> 1000 * AccScale,
    last_stat_time |-> 0, stat_interval_ms |-> 1000,
    temp_compensation_enabled |-> FALSE,
    degradation_warned |-> FALSE, reset_warned |-> FALSE,
    eeprom_magic_ok |-> magic_ok, eeprom_ppm |-> stored_ppm,
    \* ADC configuration, each held as its index in the command's table
    current_adc_rate |-> 15, current_adc_gain |-> 1, current_adc_filter |-> 3,
    current_dithering |-> 4, num_channels |-> 3,
    \* observations
    tx |-> <<>>, fired |-> FALSE, fired_seq |-> 0, fired_index |-> 0,
    fired_ts |-> 0, stream_firings |-> 0,
    trigger_now |-> 0, vm_ret |-> 0, vm_ok |-> TRUE,
    pps_accepted |-> FALSE, edge_seen |-> FALSE,
    armed_edges |-> 0, armed_n |-> 0,
    fired_space |-> 0, cmd |-> NoCmd, session_headers |-> 0,
    oflow_at |-> -1, edge_at |-> -1, prev_edge_at |-> -1,
    edge_pending |-> FALSE, first_ts |-> 0, punctual |-> TRUE,
    start_cmd |-> "", reset_at |-> -1, reset_jumps |-> 0 ])

InitAt(boot_us, magic_ok, stored_ppm) ==
  /\ mcu = SetupState(boot_us, magic_ok, stored_ppm)
  /\ hw_micros = boot_us
  /\ hw_millis = boot_us \div 1000
  /\ pc = "tick"
  /\ tick_millis = 0
  /\ elapsed = 0
  /\ waited = 0
  /\ resets = 0
  /\ cmds_sent = 0

\* ============================================================ environment
envVars == <<hw_micros, hw_millis, elapsed, resets, cmds_sent>>

\* Time passes: d microseconds, while the loop is at one of the places in at;
\* no more than max_stall passes between the starts of two passes of loop().
Advance(deltas, max_stall, at) ==
  \E d \in deltas :
    /\ pc \in at
    /\ waited + d <= max_stall
    /\ hw_micros' = (hw_micros + d) % MicrosModulus
    /\ hw_millis' = (hw_millis + ((hw_micros % 1000) + d) \div 1000) % MillisModulus
    /\ elapsed' = elapsed + d
    /\ waited' = waited + d
    /\ mcu' = Begin(mcu)
    /\ UNCHANGED <<pc, tick_millis, resets, cmds_sent>>

\* The raw counters jump to one of the <<micros, millis>> values given, while
\* the loop is at one of the places in at.
ClockJump(to, max_resets, at) ==
  \E jump \in to :
    /\ pc \in at
    /\ resets < max_resets
    /\ jump # <<hw_micros, hw_millis>>
    /\ hw_micros' = jump[1]
    /\ hw_millis' = jump[2]
    /\ resets' = resets + 1
    /\ mcu' = Begin(mcu)
    /\ UNCHANGED <<pc, tick_millis, elapsed, waited, cmds_sent>>

\* pps_interrupt().  edge_at and prev_edge_at are the times (microseconds the
\* environment has let pass) of this edge and of the edge before it, -1 for
\* none; edge_pending holds from an interrupt until a call of processPPS()
\* that begins after it.
pps_interrupt(at) ==
  /\ pc \in at
  /\ mcu' = [Begin(mcu) EXCEPT !.pps_received = TRUE,
                               !.pps_micros = hw_micros,
                               !.last_pps_time = hw_millis,
                               !.edge_seen = TRUE,
                               !.prev_edge_at = mcu.edge_at,
                               !.edge_at = elapsed,
                               !.edge_pending = TRUE]
  /\ UNCHANGED <<pc, tick_millis, waited, envVars>>

\* ================================================================ the loop
\* updateTimingSource(), lines 457-462.  reset_at is the time (microseconds
\* the environment has let pass) at which the last clock reset was detected,
\* -1 for none, and reset_jumps the number of counter jumps the environment
\* had injected by then.
TickBegin ==
  /\ pc = "tick"
  /\ LET d == detectClockReset([Begin(mcu) EXCEPT !.pps_accepted = FALSE],
                                hw_micros, hw_millis)
     IN  mcu' = IF d[2]
                THEN [handleClockReset(d[1], hw_micros, hw_millis)
                        EXCEPT !.reset_at = elapsed, !.reset_jumps = resets]
                ELSE d[1]
  /\ tick_millis' = hw_millis
  /\ pc' = "pps"
  /\ waited' = 0
  /\ UNCHANGED envVars

\* updateTimingSource(), lines 465-466.
TickPPS ==
  /\ pc = "pps"
  /\ mcu.pps_received
  /\ mcu' = processPPS([Begin(mcu) EXCEPT !.edge_pending = FALSE], hw_millis)
  /\ pc' = "clear"
  /\ UNCHANGED <<tick_millis, waited, envVars>>

TickNoPPS ==
  /\ pc = "pps"
  /\ ~mcu.pps_received
  /\ mcu' = Begin(mcu)
  /\ pc' = "fsm"
  /\ UNCHANGED <<tick_millis, waited, envVars>>

\* updateTimingSource(), line 467.
TickClearPPS ==
  /\ pc = "clear"
  /\ mcu' = [Begin(mcu) EXCEPT !.pps_received = FALSE]
  /\ pc' = "fsm"
  /\ UNCHANGED <<tick_millis, waited, envVars>>

\* updateTimingSource(), lines 470-525, then loop(), lines 266-269.
TickQuality ==
  /\ pc = "fsm"
  /\ mcu' = [updateTemperatureCompensation(sendHealthBeacon(
               selectTimingSource(Begin(mcu), tick_millis), hw_millis))
             EXCEPT !.edge_seen = FALSE]
  /\ pc' = "cmd"
  /\ UNCHANGED <<tick_millis, waited, envVars>>

\* loop(), lines 272-281: one line of input.
Command(cmds, max_commands) ==
  \E cmd \in cmds :
    /\ pc = "cmd"
    /\ cmds_sent < max_commands
    /\ mcu' = [processLine(Begin(mcu), cmd, hw_micros) EXCEPT
                 !.cmd = cmd,
                 !.session_headers =
                    IF cmd.name \in {"STOP_STREAM", "RESET"} THEN 0 ELSE @]
    /\ cmds_sent' = cmds_sent + 1
    /\ UNCHANGED <<pc, tick_millis, hw_micros, hw_millis, elapsed, waited, resets>>

\* loop(), lines 283-314.
LoopSyncWait ==
  /\ pc = "cmd"
  /\ mcu.waiting_for_sync_start
  /\ mcu' = waitForSyncStart(Begin(mcu), hw_micros)
  /\ pc' = "tick"
  /\ UNCHANGED <<tick_millis, waited, envVars>>

\* loop(), lines 316-367.  oflow_at is the time (microseconds the environment
\* has let pass) at which the last OFLOW line was written, -1 before the first.
LoopStream(tx_free) ==
  \E available_space \in tx_free :
    /\ pc = "cmd"
    /\ ~mcu.waiting_for_sync_start
    /\ mcu.streaming /\ mcu.timing_established
    /\ LET s == runScheduler(Begin(mcu), hw_micros, hw_millis, available_space)
       IN  mcu' = [s EXCEPT !.oflow_at =
                              IF CountOf(s.tx, "OFLOW") > 0 THEN elapsed ELSE @]
    /\ pc' = "tick"
    /\ UNCHANGED <<tick_millis, waited, envVars>>

\* loop(), lines 369-372.
LoopIdle ==
  /\ pc = "cmd"
  /\ ~mcu.waiting_for_sync_start
  /\ ~(mcu.streaming /\ mcu.timing_established)
  /\ mcu' = Begin(mcu)
  /\ pc' = "tick"
  /\ UNCHANGED <<tick_millis, waited, envVars>>

Tick ==
  TickBegin \/ TickPPS \/ TickNoPPS \/ TickClearPPS \/ TickQuality

Loop(tx_free) ==
  Tick \/ LoopSyncWait \/ LoopStream(tx_free) \/ LoopIdle

\* ========================================================= specifications
\* Bounds of the explored behaviours.
MaxResets == 1
MaxEdges == 2
MaxCommands == 2

Cmd(name, rate, arg) == [name |-> name, rate |-> rate, arg |-> arg]

\* Between two passes of loop() the time moves to a later one of the instants
\* given (microseconds after boot), at most max_stall away.
TimePasses(instants, max_stall, at) ==
  Advance({t - elapsed : t \in {i \in instants : i > elapsed}}, max_stall, at)

\* A PPS edge arrives, at one of the instants in when.
PPSEdge(when, at, max_edges) ==
  /\ elapsed \in when
  /\ mcu.pps_count < max_edges
  /\ ~mcu.pps_received
  /\ pps_interrupt(at)

\* --- Spec: the sampling loop around the start of a stream, at 100 Hz and at
\* 1 Hz, with PPS edges off the sample grid.
Instants == {0, 7500, 10000, 12500, 19990, 20000}
MaxStall == 20000
TxFree == {100}
Commands ==
  { Cmd("START_STREAM", 100 * RateScale, 0),
    Cmd("START_STREAM", 1 * RateScale, 0),
    Cmd("START_STREAM_PPS", 100 * RateScale, 2),
    Cmd("STOP_STREAM", 0, 0) }

Init ==
  \E magic_ok \in BOOLEAN : InitAt(0, magic_ok, 200 * PpmScale)

Next ==
  \/ Loop(TxFree)
  \/ Command(Commands, MaxCommands)
  \/ TimePasses(Instants, MaxStall, {"tick"})
  \/ PPSEdge(Instants, {"tick"}, MaxEdges)

Spec == Init /\ [][Next]_vars

\* --- SpecLong: a stream at 1000 Hz that has been running since boot and is
\* about to use the last sequence number, 65535, with counter jumps.
\* LongRunState is the state START_STREAM:1000 at boot and LongRunFirings
\* punctual firings (one per millisecond, calibration never set) lead to.
LongRunFirings == 65535
LongRunMicros == LongRunFirings * 1000

LongRunState ==
  [SetupState(0, FALSE, 0) EXCEPT
     !.streaming = TRUE,
     !.stream_rate = 1000 * RateScale,
     !.sample_interval_us = 1000,
     !.session_header_sent = TRUE,
     !.session_headers = 1,
     !.timing_established = TRUE,
     !.timing_base_micros = 1000,
     !.timing_base_virtual_micros = 1000,
     !.sequence = LongRunFirings % SeqModulus,
     !.sample_index = LongRunFirings,
     !.expected_sequence = LongRunFirings % SeqModulus,
     !.next_sample_micros = 1000 + LongRunMicros,
     !.last_micros = LongRunMicros,
     !.last_millis = LongRunMicros \div 1000,
     !.last_stat_time = 1000 * (LongRunMicros \div 1000000),
     !.vm_ret = LongRunMicros,
     !.fired_ts = LongRunMicros,
     !.first_ts = 1000,
     !.start_cmd = "START_STREAM",
     !.stream_firings = LongRunFirings]

LongInstants == {1000, 2000}
LongMaxStall == 2000
LongMaxEdges == 1
LongTxFree == {10, 100}
LongCommands ==
  { Cmd("STOP_STREAM", 0, 0),
    Cmd("START_STREAM_SYNC", 1000 * RateScale, 1),
    Cmd("SET_CAL_PPM", 0, 200 * PpmScale) }
\* A backward jump of the raw counters by some five seconds.
Jumps == {<<60000000, 60000>>}

InitLong ==
  /\ mcu = LongRunState
  /\ hw_micros = LongRunMicros
  /\ hw_millis = LongRunMicros \div 1000
  /\ pc = "tick"
  /\ tick_millis = LongRunMicros \div 1000
  /\ elapsed = 0
  /\ waited = 0
  /\ resets = 0
  /\ cmds_sent = 0

NextLong ==
  \/ Loop(LongTxFree)
  \/ Command(LongCommands, MaxCommands)
  \/ TimePasses(LongInstants, LongMaxStall, {"tick"})
  \/ ClockJump(Jumps, MaxResets, {"tick", "cmd"})
  \/ PPSEdge(LongInstants, {"tick"}, LongMaxEdges)

SpecLong == InitLong /\ [][NextLong]_vars

\* --- SpecQuality: the timing-quality machine over five minutes, with no
\* command from the host: PPS edges, their loss, a counter reset.  Passes of
\* loop() are at most QMaxStall apart; at QRaceInstants the millisecond
\* counter moves while a pass is between its own millis() reading and
\* processPPS(); the PPS source delivers edges at QPPSInstants only.
QInstants ==
  { 0, 1000500, 2000500, 4000500, 62000500, 120000000, 178000000, 236000000,
    255000000, 270000000, 303000000, 304000000, 304001000 }
QRaceInstants == { 304001000 }
QPPSInstants == { 0, 1000500, 4000500, 304000000 }
QMaxStall == 58000000
QMaxEdges == 2

\* The EEPROM holds a calibration in range, or one out of range.
InitQuality ==
  \E stored_ppm \in {-150 * PpmScale, 250 * PpmScale} :
    InitAt(0, TRUE, stored_ppm)

NextQuality ==
  \/ Tick
  \/ LoopIdle
  \/ TimePasses(QInstants, QMaxStall, {"tick"})
  \/ TimePasses(QRaceInstants, QMaxStall, {"pps"})
  \/ ClockJump({<<0, 0>>}, MaxResets, {"tick", "pps", "clear", "fsm", "cmd"})
  \/ PPSEdge(QPPSInstants, {"tick"}, QMaxEdges)

SpecQuality == InitQuality /\ [][NextQuality]_vars

\* --- SpecCmd: the life cycle of streams from boot: the three start commands,
\* STOP_STREAM, RESET and an unknown command in any order, one PPS edge, a
\* reset of the raw counters two seconds after boot, a full or a free TX
\* buffer at each firing.
CmdInstants == {0, 10000, 2000000}
CmdMaxStall == 2000000
CmdMaxEdges == 1
CmdMaxCommands == 3
CmdTxFree == {10, 100}
CmdCommands ==
  { Cmd("START_STREAM", 100 * RateScale, 0),
    Cmd("START_STREAM_SYNC", 100 * RateScale, 1),
    Cmd("START_STREAM_PPS", 100 * RateScale, 1),
    Cmd("STOP_STREAM", 0, 0),
    Cmd("RESET", 0, 0),
    Cmd("BLINK", 0, 0) }

InitCmd == InitAt(0, FALSE, 0)

NextCmd ==
  \/ Loop(CmdTxFree)
  \/ Command(CmdCommands, CmdMaxCommands)
  \/ TimePasses(CmdInstants, CmdMaxStall, {"tick"})
  \/ ClockJump({<<0, 0>>}, MaxResets, {"tick"})
  \/ PPSEdge(CmdInstants, {"tick"}, CmdMaxEdges)

SpecCmd == InitCmd /\ [][NextCmd]_vars

\* --- SpecCfg: the parameter checks of the commands, idle and streaming, with
\* quality InternalRaw and (after a PPS edge at boot) PpsActive: each setter
\* with a value of its table and one outside it, the start commands with
\* legal and illegal parameters, rates 40 ppm and 1 % off the current one.
CfgInstants == {0, 10000}
CfgPPSInstants == {0}
CfgCommands ==
  { Cmd("SET_ADC_RATE", 0, 8), Cmd("SET_ADC_RATE", 0, 17),
    Cmd("SET_GAIN", 0, 2), Cmd("SET_GAIN", 0, 0),
    Cmd("SET_FILTER", 0, 5), Cmd("SET_FILTER", 0, 6),
    Cmd("SET_DITHERING", 0, 0), Cmd("SET_DITHERING", 0, 1),
    Cmd("SET_CHANNELS", 0, 1), Cmd("SET_CHANNELS", 0, 4),
    Cmd("START_STREAM", 100 * RateScale, 0),
    Cmd("START_STREAM", 100 * RateScale + 4, 0),
    Cmd("START_STREAM", 101 * RateScale, 0),
    Cmd("START_STREAM", 2000 * RateScale, 0),
    Cmd("START_STREAM_SYNC", 100 * RateScale, 1),
    Cmd("START_STREAM_SYNC", 100 * RateScale, 10000),
    Cmd("START_STREAM_SYNC", 2000 * RateScale, 1),
    Cmd("START_STREAM_PPS", 100 * RateScale, 1),
    Cmd("START_STREAM_PPS", 100 * RateScale, 6),
    Cmd("START_STREAM_PPS", 2000 * RateScale, 1),
    Cmd("SET_PRECISE_INTERVAL", 0, 10000),
    Cmd("SET_PRECISE_INTERVAL", 0, 10099),
    Cmd("SET_PRECISE_INTERVAL", 0, 9000),
    Cmd("STOP_STREAM", 0, 0) }

InitCfg == InitAt(0, FALSE, 0)

NextCfg ==
  \/ Loop(TxFree)
  \/ Command(CfgCommands, MaxCommands)
  \/ TimePasses(CfgInstants, MaxStall, {"tick"})
  \/ PPSEdge(CfgPPSInstants, {"tick"}, MaxEdges)

SpecCfg == InitCfg /\ [][NextCfg]_vars

\* --- SpecIsr: the PPS interrupt against the main loop, with no command from
\* the host.  The interrupt fires at IsrEdgeInstants wherever the loop is,
\* also between processPPS() and the clearing of pps_received, and the loop
\* may take up to IsrMaxStall for a pass.
IsrInstants == {0, 1000, 1000000, 1001000, 2000000}
IsrEdgeInstants == {0, 1000000, 1001000, 2000000}
IsrMaxStall == 1000000
IsrPlaces == {"tick", "pps", "clear", "fsm", "cmd"}

\* One edge at most at each instant.
PPSEdgeAnywhere(when) ==
  /\ elapsed \in when
  /\ mcu.edge_at # elapsed
  /\ pps_interrupt(IsrPlaces)

InitIsr == InitAt(0, FALSE, 0)

NextIsr ==
  \/ Tick
  \/ LoopIdle
  \/ TimePasses(IsrInstants, IsrMaxStall, IsrPlaces)
  \/ PPSEdgeAnywhere(IsrEdgeInstants)

SpecIsr == InitIsr /\ [][NextIsr]_vars

\* --- SpecRate: a 100 Hz stream under a constant calibration of 0, +150 or
\* -150 ppm read from the EEPROM, with no PPS and a free TX buffer; the
\* instants are the times the scheduler plans for the first firings under
\* each of the three calibrations, so that the loop can be punctual.
RateInstants ==
  { 10000, 20000, 30000, 40000, 50000,
    19998, 29997, 39995, 49994,
    20001, 30003, 40004, 50006 }
RateMaxStall == 10002
RateMaxCommands == 1
RateCommands == { Cmd("START_STREAM", 100 * RateScale, 0) }

InitRate ==
  \E stored_ppm \in {0, 150 * PpmScale, -150 * PpmScale} :
    InitAt(0, TRUE, stored_ppm)

NextRate ==
  \/ TickBegin \/ TickNoPPS \/ TickQuality
  \/ LoopStream(TxFree) \/ LoopIdle
  \/ Command(RateCommands, RateMaxCommands)
  \/ TimePasses(RateInstants, RateMaxStall, {"tick"})

SpecRate == InitRate /\ [][NextRate]_vars

\* --- SpecWrap: the wrap of the raw microsecond counter.  WrapRunState is
\* the state of an idle device (calibration from the EEPROM, never a PPS
\* edge) whose loop last ran 5 ms before micros() wraps; the wrap falls at
\* 5000 us of the run.  Time also passes between the tick and the rest of a
\* pass of loop(), so that either detectClockReset() or getVirtualMicros()
\* is the first to read the wrapped counter.
WrapRunMicros == MicrosModulus - 5000

WrapRunState ==
  Begin(selectTimingSource(
    [SetupState(0, TRUE, 0) EXCEPT
       !.last_micros = WrapRunMicros,
       !.last_millis = WrapRunMicros \div 1000,
       !.last_stat_time = 1000 * (WrapRunMicros \div 1000000)],
    WrapRunMicros \div 1000))

WrapInstants == {1000, 5000, 6000, 10000, 11000, 20000}
WrapMaxStall == 10000
WrapMaxCommands == 2
WrapCommands ==
  { Cmd("START_STREAM", 100 * RateScale, 0),
    Cmd("START_STREAM_SYNC", 100 * RateScale, 10),
    Cmd("STOP_STREAM", 0, 0) }

InitWrap ==
  /\ mcu = WrapRunState
  /\ hw_micros = WrapRunMicros
  /\ hw_millis = WrapRunMicros \div 1000
  /\ pc = "tick"
  /\ tick_millis = WrapRunMicros \div 1000
  /\ elapsed = 0
  /\ waited = 0
  /\ resets = 0
  /\ cmds_sent = 0

NextWrap ==
  \/ TickBegin \/ TickNoPPS \/ TickQuality
  \/ LoopSyncWait \/ LoopStream(TxFree) \/ LoopIdle
  \/ Command(WrapCommands, WrapMaxCommands)
  \/ TimePasses(WrapInstants, WrapMaxStall, {"tick", "cmd"})

SpecWrap == InitWrap /\ [][NextWrap]_vars

\* --- SpecLock: the continuous PPS phase lock on a stream at 1 Hz whose
\* grid lies on the whole seconds, with a PPS source 10 us after the whole
\* second and an oscillator without drift (edges exactly 1000000 us apart,
\* no calibration stored).  The loop may be held up for a second, so that an
\* edge is consumed one second after its interrupt.
LockInstants ==
  { 0, 1000000, 2000000, 2000010, 3000000, 3000010, 4000000, 4000010 }
LockPPSInstants == { 2000010, 3000010 }
LockMaxStall == 1000010
LockMaxEdges == 2
LockMaxCommands == 1
LockCommands == { Cmd("START_STREAM", 1 * RateScale, 0) }

InitLock == InitAt(0, FALSE, 0)

NextLock ==
  \/ Tick
  \/ LoopStream(TxFree) \/ LoopIdle
  \/ Command(LockCommands, LockMaxCommands)
  \/ TimePasses(LockInstants, LockMaxStall, {"tick"})
  \/ PPSEdge(LockPPSInstants, {"tick"}, LockMaxEdges)

SpecLock == InitLock /\ [][NextLock]_vars

\* --- SpecLive: streams at 100 Hz started by any of the three start commands
\* (and by one of them after another), with no PPS source and no STOP_STREAM
\* or RESET.  loop() runs for ever: the tick is always followed through, and
\* from the command step the pass always reaches its end, whichever of the
\* three branches (sync wait, scheduler, idle) it takes; exactly one of them
\* is enabled there.  Time keeps advancing up to the last of LiveInstants.
LiveInstants == {10000, 20000, 30000, 40000, 50000, 60000}
LiveDeadline == 20000
LiveMaxStall == 10000
LiveMaxCommands == 2
LiveMaxFirings == 6
LiveCommands ==
  { Cmd("START_STREAM", 100 * RateScale, 0),
    Cmd("START_STREAM_SYNC", 100 * RateScale, 10),
    Cmd("START_STREAM_PPS", 100 * RateScale, 1),
    Cmd("BLINK", 0, 0) }

InitLive == InitAt(0, FALSE, 0)

LivePass ==
  \/ TickBegin \/ TickNoPPS \/ TickQuality
  \/ LoopSyncWait \/ LoopStream(TxFree) \/ LoopIdle

LiveTime == TimePasses(LiveInstants, LiveMaxStall, {"tick"})

NextLive ==
  \/ LivePass
  \/ Command(LiveCommands, LiveMaxCommands)
  \/ LiveTime

LoopTail == pc = "cmd" /\ pc' = "tick"

SpecLive ==
  /\ InitLive /\ [][NextLive]_vars
  /\ WF_vars(TickBegin \/ TickNoPPS \/ TickQuality)
  /\ WF_pc(LoopTail)
  /\ SF_vars(LiveTime)

\* --- SpecMillisWrap: the wrap of the raw millisecond counter.  millis()
\* and micros() count from the same boot, so millis() wraps at an instant at
\* which micros() wraps too (its thousandth wrap; the reduced widths keep
\* the two wraps together).  MillisWrapState is the state of an idle device
\* whose loop last ran 5 ms before that instant; the run is that of SpecWrap.
MillisWrapRunMillis == MillisModulus - 5

MillisWrapState ==
  Begin(selectTimingSource(
    [SetupState(0, TRUE, 0) EXCEPT
       !.last_micros = WrapRunMicros,
       !.last_millis = MillisWrapRunMillis,
       !.last_stat_time = MillisWrapRunMillis - 5],
    MillisWrapRunMillis))

InitMillisWrap ==
  /\ mcu = MillisWrapState
  /\ hw_micros = WrapRunMicros
  /\ hw_millis = MillisWrapRunMillis
  /\ pc = "tick"
  /\ tick_millis = MillisWrapRunMillis
  /\ elapsed = 0
  /\ waited = 0
  /\ resets = 0
  /\ cmds_sent = 0

NextMillisWrap ==
  \/ TickBegin \/ TickNoPPS \/ TickQuality
  \/ LoopSyncWait \/ LoopStream(TxFree) \/ LoopIdle
  \/ Command(WrapCommands, WrapMaxCommands)
  \/ TimePasses(WrapInstants, WrapMaxStall, {"tick", "cmd"})

SpecMillisWrap == InitMillisWrap /\ [][NextMillisWrap]_vars

\* ================================================================== claims
\* C6 (as the specification states it): a firing leaves next_sample_micros
\* strictly after the virtual time that triggered it, so that the pass after
\* it cannot fire again before that time is reached.
C6_NextAfterTrigger ==
  mcu.fired => mcu.next_sample_micros > mcu.trigger_now

\* C9: in every reachable state the per-sample phase adjustment is at most
\* 20 us in magnitude, whichever plan (nudge or phase lock) set it.
C9_PerSampleClamped ==
  Abs(mcu.per_sample_phase_adjust_us) <= PHASE_CLAMP_US * UsScale

\* A plan whose unclamped per-sample value (2500 us over 100 samples) exceeds
\* the clamp is in force.
C9_Witness ==
  /\ mcu.phase_alignment_active
  /\ Abs(mcu.phase_error_us) = 2500
  /\ Abs(mcu.per_sample_phase_adjust_us) = PHASE_CLAMP_US * UsScale

\* C10 (as the specification states it): a PPS-locked start armed with n
\* happens while the n-th edge processed since arming is handled.
C10_StartsOnNthEdge ==
  Wrote("OK_STARTED_AT_PPS") => mcu.armed_edges = mcu.armed_n

\* --- SpecSeq: validateAndCorrectSequence() applied to a sequence number and
\* an expected number drawn around 0, the reset threshold of 1000 and the
\* 16-bit limit, with validation on and off.
SeqInputs == {0, 1, 2, 999, 1000, 1001, 1002, 32768, 64535, 64536, 65534, 65535}

InitSeq ==
  \E seq \in SeqInputs, exp \in SeqInputs, enabled \in BOOLEAN :
    /\ mcu = [SetupState(0, FALSE, 0) EXCEPT !.sequence = seq,
                                             !.expected_sequence = exp,
                                             !.validation_enabled = enabled]
    /\ hw_micros = 0 /\ hw_millis = 0 /\ pc = "tick" /\ tick_millis = 0
    /\ elapsed = 0 /\ waited = 0 /\ resets = 0 /\ cmds_sent = 0

Validate ==
  /\ pc = "tick"
  /\ mcu' = validateAndCorrectSequence(Begin(mcu))
  /\ pc' = "cmd"
  /\ UNCHANGED <<hw_micros, hw_millis, tick_millis, elapsed, waited, resets,
                 cmds_sent>>

NextSeq == Validate

SpecSeq == InitSeq /\ [][NextSeq]_vars

\* C1 (as the specification states it): no call of getVirtualMicros() returns
\* less than the call before it, whatever the raw counters did in between.
C1_VirtualMonotone ==
  mcu.vm_ok

\* C2 (as the specification states it): the sequence number a firing emits is
\* sample_index mod 65536.
C2_SeqIsSampleIndex ==
  mcu.fired => mcu.fired_seq = mcu.fired_index % SeqModulus

\* C3: the i-th firing since the stream started carries sequence number
\* (i - 1) mod 65536, whether its record was written or dropped.
C3_SeqCountsFirings ==
  mcu.fired => mcu.fired_seq = (mcu.stream_firings - 1) % SeqModulus

\* The firing after the one that carried 65535 carries 0, its record dropped
\* by back-pressure, after a counter reset was handled.
C3_Witness ==
  /\ mcu.fired
  /\ mcu.fired_seq = 0
  /\ mcu.stream_firings = SeqModulus + 1
  /\ ~Wrote("SAMPLE")
  /\ mcu.clock_resets_detected > 0

\* C4 (as the specification states it, for the behaviours without any counter
\* jump): within a stream every record written carries a timestamp greater
\* than that of the record written before it.
C4_TimestampsIncrease ==
  [][(mcu'.fired /\ Wrote("SAMPLE")' /\ mcu.fired_ts > 0 /\ resets = 0)
       => mcu'.fired_ts > mcu.fired_ts]_vars

\* C5 (as the specification states it): whenever calibration_valid is true the
\* stored ppm is within +/-200.
C5_PpmWithinLimit ==
  mcu.calibration_valid =>
    Abs(mcu.oscillator_calibration_ppm) <= CAL_PPM_LIMIT * PpmScale

\* C7: the quality and the accuracy a tick of updateTimingSource() leaves are
\* the table's function of pps_valid, calibration_valid, the age of the last
\* PPS (the tick's millisecond reading minus last_pps_time, as unsigned
\* 32-bit values) and recent_reset.
C7_QualityTable ==
  [][(pc = "fsm" /\ pc' = "cmd") =>
       LET age == (tick_millis - mcu'.last_pps_time) % MillisModulus
           recent_reset ==
             mcu'.clock_reset_detected
               /\ (tick_millis - mcu'.reset_detection_time) % MillisModulus < 30000
           quality == mcu'.current_source
           accuracy == mcu'.timing_accuracy_us
       IN  IF mcu'.pps_valid /\ age < 1500 /\ ~recent_reset
           THEN quality = PPS_ACTIVE /\ accuracy = AccScale
           ELSE IF mcu'.pps_valid /\ age < 60000 /\ ~recent_reset
           THEN quality = PPS_HOLDOVER /\ accuracy = AccScale + age
           ELSE IF mcu'.calibration_valid /\ age < 300000 /\ ~recent_reset
           THEN quality = INTERNAL_CAL /\ accuracy = 10 * AccScale + 3 * age
           ELSE /\ quality = INTERNAL_RAW
                /\ accuracy = IF recent_reset THEN 2000 * AccScale
                                              ELSE 1000 * AccScale]_vars

\* A tick has just ended in each row reached by PPS age alone: here in
\* InternalCal, pps_valid still set, more than a minute after the last edge.
C7_Witness ==
  /\ pc = "cmd"
  /\ mcu.pps_valid
  /\ mcu.current_source = INTERNAL_CAL
  /\ (tick_millis - mcu.last_pps_time) % MillisModulus >= HOLDOVER_AGE_MS
  /\ mcu.timing_accuracy_us > 10 * AccScale

\* C8, first half: with no PPS edge since the tick before, no counter jump
\* and no clock reset ever detected, a tick leaves the quality where it was or
\* moves it one step down the order PpsActive, PpsHoldover, InternalCal,
\* InternalRaw.
C8_DegradesInOrder ==
  [][(pc = "fsm" /\ pc' = "cmd" /\ ~mcu.edge_seen
        /\ resets = 0 /\ mcu'.clock_resets_detected = 0
        /\ mcu.current_source # INTERNAL_RAW)
       => mcu'.current_source \in {mcu.current_source, mcu.current_source + 1}]_vars

\* C8, second half (as the specification states it): the tick that accepts a
\* PPS edge, with no counter jump and no clock reset ever detected, ends in
\* PpsActive.
C8_AcceptedEdgeGivesActive ==
  (pc = "cmd" /\ mcu.pps_accepted /\ resets = 0 /\ mcu.clock_resets_detected = 0)
    => mcu.current_source = PPS_ACTIVE

\* C11 (as the specification states it): when a PPS-locked start fires, the
\* stream base and the first scheduled sample time are the PPS edge in virtual
\* time, virtual_micros_offset + pps_micros.
C11_StartAtVirtualEdge ==
  Wrote("OK_STARTED_AT_PPS") =>
    /\ mcu.timing_base_micros = Add64(mcu.virtual_micros_offset, mcu.pps_micros)
    /\ mcu.next_sample_micros = Add64(mcu.virtual_micros_offset, mcu.pps_micros)

\* C12: STOP_STREAM leaves streaming, timing_established,
\* waiting_for_sync_start and sync_on_pps false and pps_countdown 0 whatever
\* the state it is processed in; and from a state where all of these are
\* clear, no step other than the processing of a start command fires a
\* sample, writes a record or sets any of them again.
C12_StopHolds ==
  [][LET Stopped(s) == /\ ~s.streaming /\ ~s.timing_established
                       /\ ~s.waiting_for_sync_start /\ ~s.sync_on_pps
                       /\ s.pps_countdown = 0
         Starts == {"START_STREAM", "START_STREAM_SYNC", "START_STREAM_PPS"}
     IN  /\ mcu'.cmd.name = "STOP_STREAM" => Stopped(mcu')
         /\ (Stopped(mcu) /\ mcu'.cmd.name \notin Starts)
              => /\ Stopped(mcu')
                 /\ ~mcu'.fired
                 /\ \A i \in 1..Len(mcu'.tx) :
                      mcu'.tx[i] \notin {"SAMPLE", "OK_STARTED_AT_PPS", "OK_STARTED_STRICT"}]_vars

\* A PPS edge has just been processed, after a PPS-locked start was armed and
\* then stopped before any edge: the edge did not count and started nothing.
C12_Witness ==
  /\ pc = "clear"
  /\ mcu.pps_count = 1
  /\ mcu.armed_n = 1 /\ mcu.armed_edges = 0
  /\ ~mcu.streaming /\ ~mcu.sync_on_pps /\ ~mcu.waiting_for_sync_start

\* C13 (as the specification states it): RESET clears everything STOP_STREAM
\* clears (streaming, timing_established, waiting_for_sync_start, sync_on_pps,
\* pps_countdown) and also leaves sequence = 0 and session_header_sent false.
C13_ResetClears ==
  mcu.cmd.name = "RESET" =>
    /\ ~mcu.streaming /\ ~mcu.timing_established
    /\ ~mcu.waiting_for_sync_start /\ ~mcu.sync_on_pps
    /\ mcu.pps_countdown = 0
    /\ mcu.sequence = 0 /\ ~mcu.session_header_sent

\* C14: while streaming is true no step changes ADC rate, gain, filter,
\* dithering or channel count, and each of the five setters, with a value of
\* its table or one outside it, is answered with an ERROR line.
C14_SettersGuarded ==
  [][LET Config(s) == <<s.current_adc_rate, s.current_adc_gain,
                        s.current_adc_filter, s.current_dithering,
                        s.num_channels>>
         Setters == {"SET_ADC_RATE", "SET_GAIN", "SET_FILTER", "SET_DITHERING",
                     "SET_CHANNELS"}
     IN  mcu.streaming =>
           /\ Config(mcu') = Config(mcu)
           /\ mcu'.cmd.name \in Setters =>
                \E i \in 1..Len(mcu'.tx) : mcu'.tx[i] = "ERROR"]_vars

\* SET_GAIN with a gain of the table has just been refused in a stream.
C14_Witness ==
  /\ mcu.streaming
  /\ mcu.cmd = Cmd("SET_GAIN", 0, 2)
  /\ Wrote("ERROR")
  /\ mcu.current_adc_gain = 1

\* C15 (as the specification states it): a command with an illegal parameter
\* (a start with a rate that is negative or above 1000 Hz, a delay of 10000 ms
\* or more, a PPS count outside 1..5; a setter with a value outside its
\* table; SET_PRECISE_INTERVAL outside 9900..10100) is answered with an ERROR
\* line and leaves streaming, rate, interval, sync and arming state and the
\* configuration as they were.
C15_IllegalRejected ==
  [][LET c == mcu'.cmd
         BadRate == c.rate < 0 \/ c.rate > 1000 * RateScale
         Illegal ==
           \/ c.name = "START_STREAM" /\ BadRate
           \/ c.name = "START_STREAM_SYNC" /\ (BadRate \/ c.arg \notin 0..9999)
           \/ c.name = "START_STREAM_PPS" /\ (BadRate \/ c.arg \notin 1..5)
           \/ c.name = "SET_ADC_RATE" /\ c.arg \notin 1..16
           \/ c.name = "SET_GAIN" /\ c.arg \notin 1..6
           \/ c.name = "SET_FILTER" /\ c.arg \notin 1..5
           \/ c.name = "SET_DITHERING" /\ c.arg \notin {0, 2, 3, 4}
           \/ c.name = "SET_CHANNELS" /\ c.arg \notin 1..3
           \/ c.name = "SET_PRECISE_INTERVAL" /\ c.arg \notin 9900..10100
         Kept(s) == <<s.streaming, s.stream_rate, s.sample_interval_us,
                      s.timing_established, s.waiting_for_sync_start,
                      s.sync_on_pps, s.pps_countdown, s.sync_start_target_us,
                      s.current_adc_rate, s.current_adc_gain,
                      s.current_adc_filter, s.current_dithering,
                      s.num_channels>>
     IN  Illegal => /\ \E i \in 1..Len(mcu'.tx) : mcu'.tx[i] = "ERROR"
                    /\ Kept(mcu') = Kept(mcu)]_vars

\* C16 (as the specification states it): a start command processed while a
\* stream is running or an earlier start is pending (waiting for its delayed
\* target or armed on PPS) is answered with an ERROR line and leaves rate,
\* sequence, session header state, streaming and the pending start as they
\* were.
C16_DoubleStartRejected ==
  [][LET Starts == {"START_STREAM", "START_STREAM_SYNC", "START_STREAM_PPS"}
         Kept(s) == <<s.streaming, s.stream_rate, s.sample_interval_us,
                      s.sequence, s.session_header_sent,
                      s.waiting_for_sync_start, s.sync_on_pps,
                      s.pps_countdown, s.sync_start_target_us>>
     IN  ((mcu.streaming \/ mcu.waiting_for_sync_start)
            /\ mcu'.cmd.name \in Starts)
           => /\ \E i \in 1..Len(mcu'.tx) : mcu'.tx[i] = "ERROR"
              /\ Kept(mcu') = Kept(mcu)]_vars

\* C17 (as the specification states it): while quality is PpsActive,
\* SET_PRECISE_INTERVAL or START_STREAM asking for a rate more than 50 ppm
\* off the current stream_rate is answered with an ERROR line and leaves
\* sample_interval_us, stream_rate and streaming as they were; a change of at
\* most 50 ppm, or an in-range change while quality is not PpsActive, is
\* taken over (for START_STREAM: when no stream is running).
C17_RateGuard ==
  [][LET c == mcu'.cmd
         Changes == {"START_STREAM", "SET_PRECISE_INTERVAL"}
         new_rate == IF c.name = "START_STREAM" THEN c.rate
                     ELSE (1000000 * RateScale) \div c.arg
         new_interval == IF c.name = "START_STREAM"
                         THEN (1000000 * RateScale) \div c.rate ELSE c.arg
         over50 == Abs(new_rate - mcu.stream_rate) > mcu.stream_rate \div 20000
         in_range == IF c.name = "START_STREAM"
                     THEN c.rate > 0 /\ c.rate <= 1000 * RateScale
                     ELSE c.arg \in 9900..10100
         locked == mcu.current_source = PPS_ACTIVE
         error == \E i \in 1..Len(mcu'.tx) : mcu'.tx[i] = "ERROR"
     IN  c.name \in Changes =>
           /\ (locked /\ over50) =>
                /\ error
                /\ mcu'.sample_interval_us = mcu.sample_interval_us
                /\ mcu'.stream_rate = mcu.stream_rate
                /\ mcu'.streaming = mcu.streaming
           /\ (in_range /\ (~locked \/ ~over50)
                 /\ (c.name = "START_STREAM" => ~mcu.streaming)) =>
                /\ ~error
                /\ mcu'.stream_rate = new_rate
                /\ mcu'.sample_interval_us = new_interval]_vars

\* C18: every stream has exactly one SESSION header, written before its
\* first sample record.  A stream ends at a STOP_STREAM or RESET command, so:
\* never more than one SESSION line is written between two such commands;
\* whenever a sample record is written, or the stream is running, exactly one
\* SESSION line has been written since the last of them; and no step writes
\* a SESSION line after a sample record.
C18_OneHeaderPerStream ==
  /\ mcu.session_headers <= 1
  /\ (mcu.streaming \/ Wrote("SAMPLE")) => mcu.session_headers = 1
  /\ \A i, j \in 1..Len(mcu.tx) :
        (i < j /\ mcu.tx[i] = "SAMPLE") => mcu.tx[j] # "SESSION"

\* A record of the second stream: start, stop, start again, and a firing.
C18_Witness ==
  /\ Wrote("SAMPLE")
  /\ cmds_sent = 3
  /\ mcu.stream_firings = 1
  /\ mcu.session_headers = 1

\* C19: streaming goes from true to false only in a step that processes a
\* STOP_STREAM or a RESET command; clock resets, PPS edges and their loss, a
\* full TX buffer, late firings, refused and unknown commands leave a
\* running stream running.
C19_OnlyStopOrResetEnds ==
  [][(mcu.streaming /\ ~mcu'.streaming)
       => mcu'.cmd.name \in {"STOP_STREAM", "RESET"}]_vars

\* A stream still running after a clock reset and a full TX buffer, in the
\* step that answers an unknown command.
C19_Witness ==
  /\ mcu.streaming
  /\ mcu.clock_resets_detected > 0
  /\ mcu.buffer_overflows > 0
  /\ mcu.cmd.name = "BLINK"
  /\ Wrote("ERROR")

\* C20: every firing is accounted for.  A step in which generatePreciseSample()
\* ran either writes exactly one sample record and leaves
\* samples_skipped_due_to_overflow alone, or writes no record and adds one to
\* it (with at most one OFLOW line, and only then); with fewer than 20 bytes
\* free in the TX buffer no record is written; and a step without a firing
\* writes no record and leaves the counter alone.
C20_FiringsAccounted ==
  [][LET Count(tag) == Cardinality({i \in 1..Len(mcu'.tx) : mcu'.tx[i] = tag})
         skipped  == mcu.samples_skipped_due_to_overflow
         skipped_ == mcu'.samples_skipped_due_to_overflow
     IN  IF mcu'.fired
         THEN /\ \/ Count("SAMPLE") = 1 /\ skipped_ = skipped /\ Count("OFLOW") = 0
                 \/ Count("SAMPLE") = 0 /\ skipped_ = skipped + 1 /\ Count("OFLOW") <= 1
              /\ mcu'.fired_space < 20 => Count("SAMPLE") = 0
              /\ mcu'.stream_firings = mcu.stream_firings + 1
         ELSE Count("SAMPLE") = 0 /\ skipped_ = skipped /\ Count("OFLOW") = 0]_vars

\* A firing that found 10 bytes free and dropped its record, reporting it,
\* in a stream that has already written a record.
C20_Witness ==
  /\ mcu.fired
  /\ mcu.fired_space < 20
  /\ ~Wrote("SAMPLE")
  /\ Wrote("OFLOW")
  /\ mcu.samples_skipped_due_to_overflow >= 1
  /\ mcu.fired_ts > 0
  /\ mcu.stream_firings >= 2

\* C21 (as the specification states it): any two OFLOW lines are at least
\* 1000 ms apart: a step that writes an OFLOW line is taken at least 1000 ms
\* of time after the step that wrote the one before it.
C21_OflowRateLimited ==
  [][(CountOf(mcu'.tx, "OFLOW") > 0 /\ mcu.oflow_at >= 0)
       => (elapsed' \div 1000) - (mcu.oflow_at \div 1000) >= 1000]_vars

\* C22 (as the specification states it): the step that handles a clock reset
\* in an established stream whose base has passed leaves sample_index =
\* floor((now_virtual - timing_base_micros) / sample_interval_us), with
\* now_virtual the virtual time the handler read.
C22_IndexFromVirtualTime ==
  [][(/\ mcu'.clock_resets_detected = mcu.clock_resets_detected + 1
      /\ mcu.streaming /\ mcu.timing_established
      /\ mcu'.vm_ret >= mcu'.timing_base_micros)
       => mcu'.sample_index =
            (mcu'.vm_ret - mcu'.timing_base_micros) \div mcu'.sample_interval_us]_vars

\* C23 (as the specification states it): with pps_valid true, no clock reset
\* detected and no PPS-locked start armed, a PPS edge that arrived 1000 ms
\* after the edge before it and is consumed by the main loop within 5 ms of
\* its interrupt is accepted and becomes the calibration anchor.
C23_RegularEdgeAccepted ==
  [][(/\ pc = "pps" /\ pc' = "clear"
      /\ mcu.pps_valid
      /\ ~mcu.clock_reset_detected /\ resets = 0
      /\ ~mcu.sync_on_pps
      /\ mcu.prev_edge_at >= 0
      /\ (mcu.edge_at \div 1000) - (mcu.prev_edge_at \div 1000) = 1000
      /\ elapsed - mcu.edge_at <= 5000)
       => /\ mcu'.pps_accepted
          /\ mcu'.cal_base_micros = mcu.pps_micros
          /\ mcu'.cal_base_millis = hw_millis]_vars

\* C24 (as the specification states it): once pps_interrupt() has run,
\* pps_received stays set until a call of processPPS() that began after the
\* interrupt has processed the edge, wherever the main loop was when the
\* interrupt fired; and processPPS() runs only for an edge not processed yet.
C24_NoEdgeLost ==
  [][/\ mcu'.edge_pending => mcu'.pps_received
     /\ (pc = "pps" /\ pc' = "clear") => mcu.edge_pending]_vars

\* C25 (as the specification states it): in a stream whose firings were all
\* punctual, with no phase plan, no PPS and a constant ppm, the record of
\* the (N+1)-th firing carries a timestamp that is N * nominal interval *
\* (1 + ppm/1e6) after that of the first record, to within 1 microsecond.
C25_RateMatchesPpm ==
  (/\ mcu.fired /\ Wrote("SAMPLE")
   /\ mcu.punctual /\ mcu.first_ts > 0
   /\ mcu.pps_count = 0 /\ ~mcu.phase_alignment_active)
    => LET N        == mcu.stream_firings - 1
           nominal  == N * mcu.sample_interval_us
           expected == nominal * UsScale
                         + MulDivMillion(nominal, mcu.oscillator_calibration_ppm)
       IN  Abs((mcu.fired_ts - mcu.first_ts) * UsScale - expected) < UsScale

\* C26 (as the specification states it): once START_STREAM_SYNC has been
\* accepted (and until another start command is), no sample fires at a
\* virtual time below sync_start_target_us, and once the wait is over the
\* stream has its base and its scheduled sample time at or after the target.
C26_NoSampleBeforeTarget ==
  mcu.start_cmd = "START_STREAM_SYNC" =>
    /\ mcu.fired => mcu.trigger_now >= mcu.sync_start_target_us
    /\ (mcu.streaming /\ mcu.timing_established
          /\ ~mcu.waiting_for_sync_start) =>
         /\ mcu.timing_base_micros >= mcu.sync_start_target_us
         /\ mcu.next_sample_micros >= mcu.sync_start_target_us

C28_PpmPersisted ==
  [][(/\ (pc = "pps" /\ pc' = "clear") \/ mcu'.cmd.name = "SET_CAL_PPM"
      /\ mcu'.oscillator_calibration_ppm # mcu.oscillator_calibration_ppm)
       => /\ mcu'.eeprom_magic_ok
          /\ mcu'.eeprom_ppm = mcu'.oscillator_calibration_ppm]_vars

\* C30 (as the specification states it): in every reachable state in which
\* streaming and timing_established are both true, next_sample_micros is
\* not below timing_base_micros.
C30_NextNotBeforeBase ==
  (mcu.streaming /\ mcu.timing_established)
    => mcu.next_sample_micros >= mcu.timing_base_micros

\* C30 witness: a stream started on a PPS edge has just skipped over missed
\* slots, so next_sample_micros has moved past the base set at that edge.
C30_Witness ==
  /\ mcu.streaming /\ mcu.timing_established
  /\ mcu.start_cmd = "START_STREAM_PPS" /\ mcu.started_on_pps
  /\ Wrote("DEBUG_SKIPPED")
  /\ mcu.timing_base_micros > 0
  /\ mcu.next_sample_micros > mcu.timing_base_micros

\* C31 (as the specification states it): the step that processes STOP_STREAM
\* leaves no phase-alignment plan behind: phase_alignment_active is false and
\* phase_adjust_samples_remaining is 0.
C31_StopDiscardsPlan ==
  [][mcu'.cmd.name = "STOP_STREAM"
       => /\ ~mcu'.phase_alignment_active
          /\ mcu'.phase_adjust_samples_remaining = 0]_vars


\* C32 (as the specification states it): the plan the one-shot phase nudge
\* creates never spans more than 200 samples.
C32_NudgeAtMost200 ==
  mcu.nudge_samples <= NUDGE_SAMPLES


\* C33: with validation enabled, validateAndCorrectSequence(seq) leaves
\* expected_sequence = (seq + 1) mod 65536 in every branch and seq as it was,
\* and it writes exactly one SEQUENCE_GAP or SEQUENCE_RESET line, adding one
\* to the matching counter, when seq differed from expected_sequence on
\* entry, and writes nothing and counts nothing when they were equal.
C33_ExpectedFollowsSeq ==
  [][(pc = "tick" /\ pc' = "cmd" /\ mcu.validation_enabled)
       => LET gaps   == CountOf(mcu'.tx, "SEQUENCE_GAP")
              resets_ == CountOf(mcu'.tx, "SEQUENCE_RESET")
          IN  /\ mcu'.expected_sequence = (mcu.sequence + 1) % SeqModulus
              /\ mcu'.sequence = mcu.sequence
              /\ Len(mcu'.tx) = gaps + resets_
              /\ gaps + resets_
                   = (IF mcu.sequence # mcu.expected_sequence THEN 1 ELSE 0)
              /\ mcu'.sequence_gaps_detected
                   = mcu.sequence_gaps_detected + gaps
              /\ mcu'.sequence_resets_detected
                   = mcu.sequence_resets_detected + resets_]_vars

\* validateAndCorrectSequence() has just handled 0 while 65535 was expected:
\* a backward jump by more than 1000, reported as a reset, resynchronised to 1.
C33_Witness ==
  /\ pc = "cmd" /\ mcu.validation_enabled
  /\ mcu.sequence = 0 /\ mcu.expected_sequence = 1
  /\ Wrote("SEQUENCE_RESET") /\ mcu.sequence_resets_detected = 1


\* C34 (as the specification states it): a tick of the quality state machine
\* that finds pps_valid true and no recent reset and ends in InternalRaw
\* writes exactly one PPS-lost warning and clears pps_valid, at the first
\* loss and at every later one.
C34_EveryLossWarned ==
  [][(/\ pc = "fsm" /\ pc' = "cmd"
      /\ mcu.pps_valid
      /\ ~RecentReset(mcu, tick_millis)
      /\ mcu'.current_source = INTERNAL_RAW)
       => /\ CountOf(mcu'.tx, "WARNING_PPS_LOST") = 1
          /\ ~mcu'.pps_valid]_vars


\* C35 (as the specification states it): at the end of a tick, quality
\* PpsActive, PpsHoldover or InternalCal implies calibration_valid.
C35_CalibratedQualityValid ==
  (pc = "cmd" /\ mcu.current_source \in {PPS_ACTIVE, PPS_HOLDOVER, INTERNAL_CAL})
    => mcu.calibration_valid


\* C36 (as the specification states it): with pps_valid true, the latest PPS
\* edge at most 1100 ms old and no clock reset, the quality state machine
\* ends the tick in PpsActive and leaves pps_valid true, wherever in the
\* tick the edge's interrupt fired and whether or not the millisecond counter
\* moved between the tick's millis() reading and processPPS().
C36_AgeNeverWraps ==
  [][(/\ pc = "fsm" /\ pc' = "cmd"
      /\ mcu.pps_valid
      /\ resets = 0 /\ mcu.reset_at < 0 /\ ~mcu.clock_reset_detected
      /\ mcu.edge_at >= 0 /\ elapsed - mcu.edge_at <= 1100000)
       => /\ mcu'.current_source = PPS_ACTIVE
          /\ mcu'.pps_valid]_vars


\* C37 (as the specification states it): a tick of updateTimingSource()
\* evaluated more than 30 s after the detection of a clock reset leaves
\* clock_reset_detected false, so that the recovery ends and later edges
\* calibrate again.
C37_RecoveryEnds ==
  [][(/\ pc = "fsm" /\ pc' = "cmd"
      /\ mcu.clock_reset_detected
      /\ resets = mcu.reset_jumps
      /\ SubMs(tick_millis, mcu.reset_detection_time) > RESET_RECOVERY_MS)
       => ~mcu'.clock_reset_detected]_vars


\* C38 (as the specification states it): across the natural wrap of the
\* millisecond counter, with no reset of the MCU, no clock reset is detected
\* or counted and calibration_valid stays as it was.
C38_MillisWrapNoReset ==
  /\ mcu.clock_resets_detected = 0
  /\ ~mcu.clock_reset_detected
  /\ mcu.calibration_valid


\* C39 (as the specification states it): with an oscillator without drift
\* (ppm 0, PPS edges exactly 1000000 us apart, no clock reset), a PPS edge
\* accepted while streaming after a phase plan has run to completion finds
\* the phase error inside the hysteresis and starts no further plan.
C39_LockConverges ==
  [][(/\ pc = "pps" /\ pc' = "clear"
      /\ mcu.streaming /\ mcu.timing_established
      /\ mcu.plan_completed
      /\ mcu.oscillator_calibration_ppm = 0
      /\ resets = 0 /\ mcu.reset_at < 0
      /\ mcu.edge_at - mcu.prev_edge_at = 1000000 /\ mcu.prev_edge_at >= 0
      /\ mcu'.pps_accepted)
       => /\ ~mcu'.phase_alignment_active
          /\ CountOf(mcu'.tx, "DEBUG_LOCK_ADJUST") = 0]_vars


\* C40 (as the specification states it): while streaming is true after an
\* acknowledged start, with time advancing and no STOP_STREAM or RESET, a
\* firing eventually occurs, and another one after every firing: from a state
\* with n firings of the stream (and two sample intervals of time still to
\* come) a state with more than n is reached.
C40_StreamKeepsFiring ==
  \A n \in 0..LiveMaxFirings :
    (mcu.streaming /\ mcu.stream_firings = n /\ elapsed <= LiveDeadline)
      ~> (mcu.stream_firings > n)

=============================================================================
